---- MODULE Spec2Model ----
(***************************************************************************)
(* generate-third-party-notice.js: scan Tasks/<task>/node_modules and      *)
(* Tasks/<task>/Tests/node_modules, collect one license record per         *)
(* package, sort the records by name and stream the composed notice to     *)
(* Tasks/<task>/ThirdPartyNotice.txt.                                      *)
(*                                                                         *)
(* A string is a sequence of one-character strings, so that startsWith,    *)
(* toLowerCase, trim, the < of compareStrings and template literals are    *)
(* computed character by character.  A path is a sequence of components.   *)
(***************************************************************************)
EXTENDS Integers, Sequences, FiniteSets, TLC

(***************************************************************************)
(* Bounds of the model.                                                    *)
(***************************************************************************)
\* Directory entries below the two scan roots, all levels together.
MaxNodes == 3

(***************************************************************************)
(* Characters and the string primitives the script uses.                   *)
(***************************************************************************)
\* The UTF-16 code unit of each character the model writes: tab, line feed,
\* carriage return and printable ASCII.
CodeUnit ==
    "\t" :> 9 @@ "\n" :> 10 @@ "\r" :> 13 @@ " " :> 32 @@ "!" :> 33 @@ "\"" :> 34 @@
    "#" :> 35 @@ "$" :> 36 @@ "%" :> 37 @@ "&" :> 38 @@ "'" :> 39 @@ "(" :> 40 @@
    ")" :> 41 @@ "*" :> 42 @@ "+" :> 43 @@ "," :> 44 @@ "-" :> 45 @@ "." :> 46 @@
    "/" :> 47 @@ "0" :> 48 @@ "1" :> 49 @@ "2" :> 50 @@ "3" :> 51 @@ "4" :> 52 @@
    "5" :> 53 @@ "6" :> 54 @@ "7" :> 55 @@ "8" :> 56 @@ "9" :> 57 @@ ":" :> 58 @@
    ";" :> 59 @@ "<" :> 60 @@ "=" :> 61 @@ ">" :> 62 @@ "?" :> 63 @@ "@" :> 64 @@
    "A" :> 65 @@ "B" :> 66 @@ "C" :> 67 @@ "D" :> 68 @@ "E" :> 69 @@ "F" :> 70 @@
    "G" :> 71 @@ "H" :> 72 @@ "I" :> 73 @@ "J" :> 74 @@ "K" :> 75 @@ "L" :> 76 @@
    "M" :> 77 @@ "N" :> 78 @@ "O" :> 79 @@ "P" :> 80 @@ "Q" :> 81 @@ "R" :> 82 @@
    "S" :> 83 @@ "T" :> 84 @@ "U" :> 85 @@ "V" :> 86 @@ "W" :> 87 @@ "X" :> 88 @@
    "Y" :> 89 @@ "Z" :> 90 @@ "[" :> 91 @@ "\\" :> 92 @@ "]" :> 93 @@ "^" :> 94 @@
    "_" :> 95 @@ "a" :> 97 @@ "b" :> 98 @@ "c" :> 99 @@ "d" :> 100 @@ "e" :> 101 @@
    "f" :> 102 @@ "g" :> 103 @@ "h" :> 104 @@ "i" :> 105 @@ "j" :> 106 @@ "k" :> 107 @@
    "l" :> 108 @@ "m" :> 109 @@ "n" :> 110 @@ "o" :> 111 @@ "p" :> 112 @@ "q" :> 113 @@
    "r" :> 114 @@ "s" :> 115 @@ "t" :> 116 @@ "u" :> 117 @@ "v" :> 118 @@ "w" :> 119 @@
    "x" :> 120 @@ "y" :> 121 @@ "z" :> 122 @@ "{" :> 123 @@ "|" :> 124 @@ "}" :> 125 @@
    "~" :> 126

CodeOf(c) == CodeUnit[c]

\* The decimal digits, "0" first.
Digits == <<"0", "1", "2", "3", "4", "5", "6", "7", "8", "9">>

\* String.prototype.toLowerCase moves A-Z to a-z.
LowerCase ==
    "A" :> "a" @@ "B" :> "b" @@ "C" :> "c" @@ "D" :> "d" @@ "E" :> "e" @@ "F" :> "f" @@
    "G" :> "g" @@ "H" :> "h" @@ "I" :> "i" @@ "J" :> "j" @@ "K" :> "k" @@ "L" :> "l" @@
    "M" :> "m" @@ "N" :> "n" @@ "O" :> "o" @@ "P" :> "p" @@ "Q" :> "q" @@ "R" :> "r" @@
    "S" :> "s" @@ "T" :> "t" @@ "U" :> "u" @@ "V" :> "v" @@ "W" :> "w" @@ "X" :> "x" @@
    "Y" :> "y" @@ "Z" :> "z"

LowerChar(c) == IF c \in DOMAIN LowerCase THEN LowerCase[c] ELSE c

toLowerCase(s) == [i \in 1..Len(s) |-> LowerChar(s[i])]

startsWith(s, prefix) ==
    /\ Len(s) >= Len(prefix)
    /\ SubSeq(s, 1, Len(prefix)) = prefix

\* White space and line terminators String.prototype.trim strips.
WhiteSpace == {" ", "\t", "\n", "\r"}

RECURSIVE trimStart(_)
trimStart(s) ==
    IF s # <<>> /\ Head(s) \in WhiteSpace THEN trimStart(Tail(s)) ELSE s

RECURSIVE trimEnd(_)
trimEnd(s) ==
    IF s # <<>> /\ s[Len(s)] \in WhiteSpace
    THEN trimEnd(SubSeq(s, 1, Len(s) - 1))
    ELSE s

trim(s) == trimEnd(trimStart(s))

\* The < of two strings: by code unit at the first difference, a proper
\* prefix first.
RECURSIVE StrLess(_, _)
StrLess(a, b) ==
    IF b = <<>> THEN FALSE
    ELSE IF a = <<>> THEN TRUE
    ELSE IF Head(a) = Head(b) THEN StrLess(Tail(a), Tail(b))
    ELSE CodeOf(Head(a)) < CodeOf(Head(b))

\* A template literal's rendering of a non-negative integer.
RECURSIVE NumberToString(_)
NumberToString(n) ==
    IF n < 10 THEN <<Digits[n + 1]>>
    ELSE Append(NumberToString(n \div 10), Digits[(n % 10) + 1])

\* A path is its sequence of components.
pathJoin(dir, x) == Append(dir, x)
basename(p) == p[Len(p)]
dirname(p) == SubSeq(p, 1, Len(p) - 1)

(***************************************************************************)
(* String literals of the script.                                          *)
(***************************************************************************)
PackageJson ==
    <<"p", "a", "c", "k", "a", "g", "e", ".", "j", "s", "o", "n">>

NoLicenseFound ==
    <<"N", "O", " ", "L", "I", "C", "E", "N", "S", "E", " ", "F", "O", "U", "N", "D">>

DotBin ==
    <<".", "b", "i", "n">>

NodeModules ==
    <<"n", "o", "d", "e", "_", "m", "o", "d", "u", "l", "e", "s">>

TestsDir ==
    <<"T", "e", "s", "t", "s">>

TasksDir ==
    <<"T", "a", "s", "k", "s">>

NoticeFileName ==
    <<"T", "h", "i", "r", "d", "P", "a", "r", "t", "y", "N", "o", "t", "i", "c", "e", ".", "t",
      "x", "t">>

TitleLine ==
    <<"T", "H", "I", "R", "D", "-", "P", "A", "R", "T", "Y", " ", "S", "O", "F", "T", "W", "A",
      "R", "E", " ", "N", "O", "T", "I", "C", "E", "S", " ", "A", "N", "D", " ", "I", "N", "F",
      "O", "R", "M", "A", "T", "I", "O", "N">>

DoNotTranslateLine ==
    <<"D", "o", " ", "N", "o", "t", " ", "T", "r", "a", "n", "s", "l", "a", "t", "e", " ", "o",
      "r", " ", "L", "o", "c", "a", "l", "i", "z", "e">>

BoilerplateHead ==
    <<"T", "h", "i", "s", " ", "V", "i", "s", "u", "a", "l", " ", "S", "t", "u", "d", "i", "o",
      " ", "T", "e", "a", "m", " ", "S", "e", "r", "v", "i", "c", "e", "s", " ", "e", "x", "t",
      "e", "n", "s", "i", "o", "n", " ", "(">>

BoilerplateTail ==
    <<")", " ", "i", "s", " ", "b", "a", "s", "e", "d", " ", "o", "n", " ", "o", "r", " ", "i",
      "n", "c", "o", "r", "p", "o", "r", "a", "t", "e", "s", " ", "m", "a", "t", "e", "r", "i",
      "a", "l", " ", "f", "r", "o", "m", " ", "t", "h", "e", " ", "p", "r", "o", "j", "e", "c",
      "t", "s", " ", "l", "i", "s", "t", "e", "d", " ", "b", "e", "l", "o", "w", " ", "(", "T",
      "h", "i", "r", "d", " ", "P", "a", "r", "t", "y", " ", "I", "P", ")", ".", " ", "T", "h",
      "e", " ", "o", "r", "i", "g", "i", "n", "a", "l", " ", "c", "o", "p", "y", "r", "i", "g",
      "h", "t", " ", "n", "o", "t", "i", "c", "e", " ", "a", "n", "d", " ", "t", "h", "e", " ",
      "l", "i", "c", "e", "n", "s", "e", " ", "u", "n", "d", "e", "r", " ", "w", "h", "i", "c",
      "h", " ", "M", "i", "c", "r", "o", "s", "o", "f", "t", " ", "r", "e", "c", "e", "i", "v",
      "e", "d", " ", "s", "u", "c", "h", " ", "T", "h", "i", "r", "d", " ", "P", "a", "r", "t",
      "y", " ", "I", "P", ",", " ", "a", "r", "e", " ", "s", "e", "t", " ", "f", "o", "r", "t",
      "h", " ", "b", "e", "l", "o", "w", ".", " ", "S", "u", "c", "h", " ", "l", "i", "c", "e",
      "n", "s", "e", "s", " ", "a", "n", "d", " ", "n", "o", "t", "i", "c", "e", "s", " ", "a",
      "r", "e", " ", "p", "r", "o", "v", "i", "d", "e", "d", " ", "f", "o", "r", " ", "i", "n",
      "f", "o", "r", "m", "a", "t", "i", "o", "n", "a", "l", " ", "p", "u", "r", "p", "o", "s",
      "e", "s", " ", "o", "n", "l", "y", ".", " ", "M", "i", "c", "r", "o", "s", "o", "f", "t",
      " ", "l", "i", "c", "e", "n", "s", "e", "s", " ", "t", "h", "e", " ", "T", "h", "i", "r",
      "d", " ", "P", "a", "r", "t", "y", " ", "I", "P", " ", "t", "o", " ", "y", "o", "u", " ",
      "u", "n", "d", "e", "r", " ", "t", "h", "e", " ", "l", "i", "c", "e", "n", "s", "i", "n",
      "g", " ", "t", "e", "r", "m", "s", " ", "f", "o", "r", " ", "t", "h", "e", " ", "V", "i",
      "s", "u", "a", "l", " ", "S", "t", "u", "d", "i", "o", " ", "T", "e", "a", "m", " ", "S",
      "e", "r", "v", "i", "c", "e", "s", " ", "e", "x", "t", "e", "n", "s", "i", "o", "n", ".",
      " ", "M", "i", "c", "r", "o", "s", "o", "f", "t", " ", "r", "e", "s", "e", "r", "v", "e",
      "s", " ", "a", "l", "l", " ", "o", "t", "h", "e", "r", " ", "r", "i", "g", "h", "t", "s",
      " ", "n", "o", "t", " ", "e", "x", "p", "r", "e", "s", "s", "l", "y", " ", "g", "r", "a",
      "n", "t", "e", "d", " ", "u", "n", "d", "e", "r", " ", "t", "h", "i", "s", " ", "a", "g",
      "r", "e", "e", "m", "e", "n", "t", ",", " ", "w", "h", "e", "t", "h", "e", "r", " ", "b",
      "y", " ", "i", "m", "p", "l", "i", "c", "a", "t", "i", "o", "n", ",", " ", "e", "s", "t",
      "o", "p", "p", "e", "l", " ", "o", "r", " ", "o", "t", "h", "e", "r", "w", "i", "s", "e",
      ".">>

BeginHead ==
    <<"%", "%", " ">>

BeginTail ==
    <<" ", "N", "O", "T", "I", "C", "E", "S", ",", " ", "I", "N", "F", "O", "R", "M", "A", "T",
      "I", "O", "N", ",", " ", "A", "N", "D", " ", "L", "I", "C", "E", "N", "S", "E", " ", "B",
      "E", "G", "I", "N", " ", "H", "E", "R", "E">>

SeparatorLine ==
    <<"=", "=", "=", "=", "=", "=", "=", "=", "=", "=", "=", "=", "=", "=", "=", "=", "=", "=",
      "=", "=", "=", "=", "=", "=", "=", "=", "=", "=", "=", "=", "=", "=", "=", "=", "=", "=",
      "=", "=", "=", "=", "=">>

EndHead ==
    <<"E", "N", "D", " ", "O", "F", " ">>

EndTail ==
    <<" ", "N", "O", "T", "I", "C", "E", "S", ",", " ", "I", "N", "F", "O", "R", "M", "A", "T",
      "I", "O", "N", ",", " ", "A", "N", "D", " ", "L", "I", "C", "E", "N", "S", "E">>

Eol == <<"\n">>

licenseNames ==
    <<toLowerCase(<<"L", "I", "C", "E", "N", "S", "E">>),
      toLowerCase(<<"L", "I", "C", "E", "N", "S", "E", ".", "m", "d">>),
      toLowerCase(<<"L", "I", "C", "E", "N", "S", "E", ".", "t", "x", "t">>)>>

(***************************************************************************)
(* The file system the script reads.  A node is a directory entry: its     *)
(* name, its type, whether this process may read it, a file's text and     *)
(* what JSON.parse makes of it, a directory's listing in readdir order.    *)
(***************************************************************************)
\* JSON.parse of a text that is not JSON throws.
NotJson ==
    [valid |-> FALSE, name |-> <<>>, repository |-> "absent", hasUrl |-> FALSE, url |-> <<>>]

\* A parsed manifest: its `name`; `repository` is absent, a string or an
\* object, and an object may hold `url`.
Manifest(name, repository, hasUrl, url) ==
    [valid |-> TRUE, name |-> name, repository |-> repository, hasUrl |-> hasUrl,
     url |-> url]

File(name, text) ==
    [name |-> name, type |-> "file", readable |-> TRUE, text |-> text,
     json |-> NotJson, children |-> <<>>]

JsonFile(name, json) ==
    [name |-> name, type |-> "file", readable |-> TRUE, text |-> <<>>,
     json |-> json, children |-> <<>>]

Dir(name, children) ==
    [name |-> name, type |-> "dir", readable |-> TRUE, text |-> <<>>,
     json |-> NotJson, children |-> children]

\* A path that does not exist.
Missing(name) ==
    [name |-> name, type |-> "none", readable |-> FALSE, text |-> <<>>,
     json |-> NotJson, children |-> <<>>]

At == <<"@">>
UrlX == <<"h", "t", "t", "p", ":", "/", "/", "x">>
Readme == File(<<"R", "E", "A", "D", "M", "E">>, <<"r">>)

\* b: the manifest calls it bee, repository.url is set, and the text of its
\* one LICENSE has white space around it.
PkgB1 ==
    Dir(<<"b">>,
        <<File(<<"L", "I", "C", "E", "N", "S", "E">>, <<" ", "h", "e", "l", "l", "o", "\n">>),
          JsonFile(PackageJson, Manifest(<<"b", "e", "e">>, "object", TRUE, UrlX))>>)

\* b again: repository is a string (no url), no license file.
PkgB2 ==
    Dir(<<"b">>, <<JsonFile(PackageJson, Manifest(<<"b">>, "string", FALSE, <<>>)), Readme>>)

\* A: repository.url is "", two license files that differ in case and suffix.
PkgA ==
    Dir(<<"A">>,
        <<File(<<"l", "i", "c", "e", "n", "s", "e", ".", "T", "X", "T">>, <<"x">>),
          JsonFile(PackageJson, Manifest(<<"a">>, "object", TRUE, <<>>)),
          File(<<"L", "I", "C", "E", "N", "S", "E", ".", "m", "d">>, <<"y", " ">>)>>)

\* a2: a file that is no license before the license; LICENCE does not match.
PkgA2 ==
    Dir(<<"a", "2">>,
        <<File(<<"L", "I", "C", "E", "N", "C", "E">>, <<"n">>),
          Readme,
          File(<<"L", "i", "c", "e", "n", "s", "e">>, <<"M", "I", "T">>),
          JsonFile(PackageJson, Manifest(<<"a", "2">>, "object", TRUE, UrlX))>>)

\* .bin, here with a manifest of its own.
BinDir ==
    Dir(DotBin,
        <<JsonFile(PackageJson, Manifest(<<"s", "h", "i", "m">>, "object", TRUE, UrlX))>>)

\* c: a manifest without `repository`.
PkgNoRepo ==
    Dir(<<"c">>,
        <<File(<<"L", "I", "C", "E", "N", "S", "E">>, <<"c">>),
          JsonFile(PackageJson, Manifest(<<"c">>, "absent", FALSE, <<>>))>>)

\* d: a directory without package.json.
PkgNoManifest == Dir(<<"d">>, <<Readme>>)

Leaves == {PkgB1, PkgB2, PkgA, PkgA2, BinDir, PkgNoRepo, PkgNoManifest}

\* Directory entries in a listing, the entries below scope directories included.
RECURSIVE Weight(_)
RECURSIVE ListWeight(_)
Weight(e) == 1 + (IF startsWith(e.name, At) THEN ListWeight(e.children) ELSE 0)
ListWeight(l) == IF l = <<>> THEN 0 ELSE Weight(Head(l)) + ListWeight(Tail(l))

\* The listings over S of exactly n entries in all, given those of fewer
\* (fewer[k + 1] holds the listings of k entries); names in a directory differ.
ListsOfWeight(S, n, fewer) ==
    IF n = 0 THEN {<<>>}
    ELSE UNION { { <<e>> \o l :
                     l \in { m \in fewer[n - Weight(e) + 1] :
                               \A i \in 1..Len(m) : m[i].name # e.name } } :
                 e \in { x \in S : Weight(x) <= n } }

RECURSIVE ListsByWeight(_, _, _)
ListsByWeight(S, n, fewer) ==
    IF Len(fewer) > n THEN fewer
    ELSE ListsByWeight(S, n, Append(fewer, ListsOfWeight(S, Len(fewer), fewer)))

\* The listings over S of at most n entries in all.
ListsOver(S, n) ==
    IF n < 0 THEN {}
    ELSE LET byWeight == ListsByWeight(S, n, <<>>)
         IN  UNION { byWeight[k] : k \in 1..(n + 1) }

\* What the model puts below a scope directory, and below a scope directory
\* inside a scope directory.
ScopeLeaves == {PkgB1, BinDir, PkgNoRepo}
InnerLeaves == {PkgB1, BinDir}

InnerScopes(n) == { Dir(<<"@", "t">>, l) : l \in ListsOver(InnerLeaves, n - 1) }

Scopes(n) ==
    { Dir(<<"@", "s">>, l) : l \in ListsOver(ScopeLeaves \cup InnerScopes(n - 1), n - 1) }

RootListings(n) == ListsOver(Leaves \cup Scopes(n), n)

\* RootListingsUpTo[k + 1]: the listings of a root of at most k entries in all.
RootListingsUpTo == [k \in 1..(MaxNodes + 1) |-> RootListings(k - 1)]

\* The two installation roots are both present, or the first is missing, or
\* the second is.
IsFileSystem(f) ==
    \/ \E l1 \in RootListingsUpTo[MaxNodes + 1] :
         \E l2 \in RootListingsUpTo[MaxNodes - ListWeight(l1) + 1] :
            f = [main |-> Dir(NodeModules, l1), tests |-> Dir(NodeModules, l2)]
    \/ f = [main |-> Missing(NodeModules), tests |-> Dir(NodeModules, <<>>)]
    \/ \E l1 \in RootListingsUpTo[MaxNodes + 1] :
         f = [main |-> Dir(NodeModules, l1), tests |-> Missing(NodeModules)]

TaskName == <<"T">>
NodeExe == <<"n", "o", "d", "e">>
ScriptName == <<"g", "e", "n", ".", "j", "s">>

\* process.argv with and without the task name.
ArgLists == { <<NodeExe, ScriptName>>, <<NodeExe, ScriptName, TaskName>> }

\* What ThirdPartyNotice.txt holds before the run.
StaleNotice == [exists |-> TRUE, data |-> <<<<"o", "l", "d">>, Eol>>]

(***************************************************************************)
(* State.                                                                  *)
(***************************************************************************)
VARIABLES
    fs,                 \* the two installation roots as they are on disk
    noticeFile,         \* Tasks/<task>/ThirdPartyNotice.txt on disk
    args,               \* process.argv
    pc,                 \* where main is: main, scan, sort, open, write, end, returned, exited
    cur,                \* concat: the iterable being drained (1, 2; 3 when both are done)
    stack,              \* collectLicenseInfo: the generator frames, innermost last
    licenseInfo,        \* Array.from(licenseInfo): the records yielded so far
    yieldedFrom,        \* history: the directory each record was yielded for
    listed,             \* history: the directories collectLicenseInfo has listed
    sortedLicenseInfo,  \* the sorted array
    writeStream,        \* the fs.WriteStream: created, opened, ended, chunks written to it
    log,                \* the lines logged, in order
    raised,             \* history: the failures raised, in order
    exitCode            \* the process's exit status once it has exited

vars ==
    <<fs, noticeFile, args, pc, cur, stack, licenseInfo, yieldedFrom, listed,
      sortedLicenseInfo, writeStream, log, raised, exitCode>>

(***************************************************************************)
(* log, trace and the fs calls.                                            *)
(***************************************************************************)
Info(text, path) == [level |-> "INFO", text |-> text, path |-> path]
Warning(text, path) == [level |-> "WARNING", text |-> text, path |-> path]
Error(text, path) == [level |-> "ERROR", text |-> text, path |-> path]

\* The entry of directory `node` called `name`, or a missing path.
Lookup(node, name) ==
    IF node.type = "dir" /\ \E i \in 1..Len(node.children) : node.children[i].name = name
    THEN node.children[CHOOSE i \in 1..Len(node.children) : node.children[i].name = name]
    ELSE Missing(name)

\* The error fs.readdirSync throws on `node`, "" when it lists it.
readdirError(node) ==
    CASE node.type = "none" -> "ENOENT"
      [] node.type = "file" -> "ENOTDIR"
      [] ~node.readable -> "EACCES"
      [] OTHER -> ""

\* The error fs.readFileSync throws on `node`, "" when it reads it.
readFileError(node) ==
    CASE node.type = "none" -> "ENOENT"
      [] node.type = "dir" -> "EISDIR"
      [] ~node.readable -> "EACCES"
      [] OTHER -> ""

Threw(error, path, logs) ==
    [threw |-> TRUE, error |-> error, path |-> path, logs |-> logs]

readPackageJson(packagePath, node) ==
    LET file == Lookup(node, PackageJson)
        logs == <<Info("Reading the package.json for", packagePath)>>
    IN  IF node.type = "file"
        THEN Threw("ENOTDIR", pathJoin(packagePath, PackageJson), logs)
                @@ [manifest |-> NotJson]
        ELSE IF readFileError(file) # ""
        THEN Threw(readFileError(file), pathJoin(packagePath, PackageJson), logs)
                @@ [manifest |-> NotJson]
        ELSE IF ~file.json.valid
        THEN Threw("SyntaxError", pathJoin(packagePath, PackageJson), logs)
                @@ [manifest |-> NotJson]
        ELSE [threw |-> FALSE, error |-> "", path |-> packagePath, logs |-> logs,
              manifest |-> file.json]

\* licenseNames.includes(x.toLowerCase())
isLicenseName(x) ==
    \E i \in 1..Len(licenseNames) : licenseNames[i] = toLowerCase(x)

\* children.filter(...): the candidates in listing order.
candidatesOf(children) ==
    LET keep(c) == isLicenseName(c.name) IN SelectSeq(children, keep)

\* Variant: the last candidate instead of the first.
lastCandidate(candidates) == candidates[Len(candidates)]

\* candidates[0]
chosenCandidate(candidates) == candidates[1]

findLicense(packagePath, node) ==
    LET start == <<Info("Finding the license for", packagePath)>>
        candidates == candidatesOf(node.children)
    IN  IF readdirError(node) # ""
        THEN Threw(readdirError(node), packagePath, start)
                @@ [found |-> FALSE, license |-> <<>>, file |-> Missing(<<>>)]
        ELSE IF Len(candidates) = 0
        THEN [threw |-> FALSE, error |-> "", path |-> packagePath,
              logs |-> Append(start, Warning("Could not find a license for", packagePath)),
              found |-> FALSE, license |-> <<>>, file |-> Missing(<<>>)]
        ELSE LET license == pathJoin(packagePath, chosenCandidate(candidates).name)
             IN  [threw |-> FALSE, error |-> "", path |-> packagePath,
                  logs |-> start
                           \o (IF Len(candidates) > 1
                               THEN <<Warning("Found multiple license files for", packagePath)>>
                               ELSE <<>>)
                           \o <<Info("Found license", license)>>,
                  found |-> TRUE, license |-> license,
                  file |-> chosenCandidate(candidates)]

(***************************************************************************)
(* collectLicenseInfo: one package.                                        *)
(***************************************************************************)
Undefined == [defined |-> FALSE, value |-> <<>>]
Defined(v) == [defined |-> TRUE, value |-> v]

\* A value of `url` is truthy when it is a string and not the empty one.
Truthy(url) == url.defined /\ url.value # <<>>

NoRecord == [name |-> <<>>, url |-> Undefined, licenseText |-> <<>>]

\* Variant: the scope is left out of the name.
packageNameUnscoped(absolutePath) == basename(absolutePath)

\* The record's name: the parent directory is part of it below a scope.
packageName(absolutePath) ==
    LET parentDir == basename(dirname(absolutePath))
        isScopedPackage == startsWith(parentDir, At)
    IN  IF isScopedPackage
        THEN parentDir \o <<"/">> \o basename(absolutePath)
        ELSE basename(absolutePath)

\* Variant: a missing `repository` is tolerated, as with optional chaining.
urlNeverThrows(manifest) == FALSE

\* Whether manifest.repository.url throws: `repository` is undefined.
urlThrows(manifest) == manifest.repository = "absent"

\* manifest.repository.url
repositoryUrl(manifest) ==
    IF manifest.repository = "object" /\ manifest.hasUrl
    THEN Defined(manifest.url)
    ELSE Undefined

\* Lines 100 to 108: read the manifest, find and read the license, yield.
visitPackage(absolutePath, node, name) ==
    LET m == readPackageJson(absolutePath, node)
        l == findLicense(absolutePath, node)
    IN  IF m.threw
        THEN [threw |-> TRUE, error |-> m.error, path |-> m.path, logs |-> m.logs,
              record |-> NoRecord]
        ELSE IF l.threw
        THEN [threw |-> TRUE, error |-> l.error, path |-> l.path,
              logs |-> m.logs \o l.logs, record |-> NoRecord]
        ELSE IF l.found /\ readFileError(l.file) # ""
        THEN [threw |-> TRUE, error |-> readFileError(l.file), path |-> l.license,
              logs |-> m.logs \o l.logs, record |-> NoRecord]
        ELSE IF urlThrows(m.manifest)
        THEN [threw |-> TRUE, error |-> "TypeError", path |-> absolutePath,
              logs |-> m.logs \o l.logs, record |-> NoRecord]
        ELSE [threw |-> FALSE, error |-> "", path |-> absolutePath,
              logs |-> m.logs \o l.logs,
              record |-> [name |-> name,
                          url |-> repositoryUrl(m.manifest),
                          licenseText |-> IF l.found THEN l.file.text ELSE NoLicenseFound]]

(***************************************************************************)
(* main's comparator and sort.                                             *)
(***************************************************************************)
compareStrings(a, b) ==
    IF StrLess(a, b) THEN -1
    ELSE IF StrLess(b, a) THEN 1
    ELSE 0

\* (x, y) => compareStrings(x.name, y.name)
compareRecords(x, y) == compareStrings(x.name, y.name)

\* Variant: an unstable sort, which puts an element before those that compare
\* equal to it.
RECURSIVE insertBeforeEqual(_, _)
insertBeforeEqual(s, x) ==
    IF s = <<>> THEN <<x>>
    ELSE IF compareRecords(x, Head(s)) <= 0 THEN <<x>> \o s
    ELSE <<Head(s)>> \o insertBeforeEqual(Tail(s), x)

\* Array.prototype.sort is stable: an element goes behind the elements that
\* compare equal to it and came before it.
RECURSIVE insertSorted(_, _)
insertSorted(s, x) ==
    IF s = <<>> THEN <<x>>
    ELSE IF compareRecords(x, Head(s)) < 0 THEN <<x>> \o s
    ELSE <<Head(s)>> \o insertSorted(Tail(s), x)

RECURSIVE sortRecords(_)
sortRecords(arr) ==
    IF arr = <<>> THEN <<>>
    ELSE insertSorted(sortRecords(SubSeq(arr, 1, Len(arr) - 1)), arr[Len(arr)])

(***************************************************************************)
(* thirdPartyNotice: the generator, by its position.                       *)
(***************************************************************************)
preamble(taskName) ==
    << <<>>,
       TitleLine,
       DoNotTranslateLine,
       <<>>,
       BoilerplateHead \o taskName \o BoilerplateTail,
       <<>> >>

\* One line of the numbered index.
indexLine(num, item) ==
    IF Truthy(item.url)
    THEN NumberToString(num) \o <<".", "\t">> \o item.name
            \o <<" ", "(">> \o item.url.value \o <<")">>
    ELSE NumberToString(num) \o <<".", "\t">> \o item.name

\* Variant: the license text is yielded as read, without trim().
licenseBlockUntrimmed(item) ==
    << BeginHead \o item.name \o BeginTail,
       SeparatorLine,
       item.licenseText,
       SeparatorLine,
       EndHead \o item.name \o EndTail,
       <<>> >>

\* The six items yielded for one module's license.
licenseBlock(item) ==
    << BeginHead \o item.name \o BeginTail,
       SeparatorLine,
       trim(item.licenseText),
       SeparatorLine,
       EndHead \o item.name \o EndTail,
       <<>> >>

GenAt(at, k, part, num) == [at |-> at, k |-> k, part |-> part, num |-> num]

genStart == GenAt("preamble", 1, 0, 0)

\* What the generator yields at position g.
genYield(taskName, info, g) ==
    CASE g.at = "preamble" -> preamble(taskName)[g.k]
      [] g.at = "index" -> indexLine(g.num, info[g.k])
      [] g.at = "gap" -> <<>>
      [] g.at = "body" -> licenseBlock(info[g.k])[g.part]

\* Variant: num advances only for a record that has a url.
genAdvanceCountingUrls(info, g) ==
    CASE g.at = "preamble" ->
            IF g.k < 6 THEN GenAt("preamble", g.k + 1, 0, 0)
            ELSE IF Len(info) > 0 THEN GenAt("index", 1, 0, 1)
            ELSE GenAt("gap", 1, 0, 1)
      [] g.at = "index" ->
            LET num == IF Truthy(info[g.k].url) THEN g.num + 1 ELSE g.num
            IN  IF g.k < Len(info) THEN GenAt("index", g.k + 1, 0, num)
                ELSE GenAt("gap", 1, 0, num)
      [] g.at = "gap" ->
            IF g.k < 2 THEN GenAt("gap", 2, 0, g.num)
            ELSE IF Len(info) > 0 THEN GenAt("body", 1, 1, g.num)
            ELSE GenAt("done", 0, 0, g.num)
      [] g.at = "body" ->
            IF g.part < 6 THEN GenAt("body", g.k, g.part + 1, g.num)
            ELSE IF g.k < Len(info) THEN GenAt("body", g.k + 1, 1, g.num)
            ELSE GenAt("done", 0, 0, g.num)

\* The position after the yield at g.
genAdvance(info, g) ==
    CASE g.at = "preamble" ->
            IF g.k < Len(preamble(<<>>)) THEN GenAt("preamble", g.k + 1, 0, 0)
            ELSE IF Len(info) > 0 THEN GenAt("index", 1, 0, 1)
            ELSE GenAt("gap", 1, 0, 1)
      [] g.at = "index" ->
            IF g.k < Len(info) THEN GenAt("index", g.k + 1, 0, g.num + 1)
            ELSE GenAt("gap", 1, 0, g.num + 1)
      [] g.at = "gap" ->
            IF g.k < 2 THEN GenAt("gap", 2, 0, g.num)
            ELSE IF Len(info) > 0 THEN GenAt("body", 1, 1, g.num)
            ELSE GenAt("done", 0, 0, g.num)
      [] g.at = "body" ->
            IF g.part < Len(licenseBlock(info[g.k])) THEN GenAt("body", g.k, g.part + 1, g.num)
            ELSE IF g.k < Len(info) THEN GenAt("body", g.k + 1, 1, g.num)
            ELSE GenAt("done", 0, 0, g.num)

\* Every item the generator yields from position g on, in order.
RECURSIVE yieldsFrom(_, _, _)
yieldsFrom(taskName, info, g) ==
    IF g.at = "done" THEN <<>>
    ELSE <<genYield(taskName, info, g)>> \o yieldsFrom(taskName, info, genAdvance(info, g))

thirdPartyNotice(taskName, licenseInfo_) == yieldsFrom(taskName, licenseInfo_, genStart)

\* writeLine: the line, then os.EOL.
writeLine(chunks, line) == chunks \o <<line, Eol>>

\* for (let line of lines) writeLine(line)
RECURSIVE writeLines(_, _)
writeLines(chunks, lines) ==
    IF lines = <<>> THEN chunks
    ELSE writeLines(writeLine(chunks, Head(lines)), Tail(lines))

(***************************************************************************)
(* The run.                                                                *)
(***************************************************************************)
taskPath == <<TasksDir, args[3]>>
nodeModuleDir == pathJoin(taskPath, NodeModules)
testsNodeModuleDir == pathJoin(pathJoin(taskPath, TestsDir), NodeModules)

\* concat's iterables: the path and the directory on disk of each root.
rootPath(r) == IF r = 1 THEN nodeModuleDir ELSE testsNodeModuleDir
rootNode(r) == IF r = 1 THEN fs.main ELSE fs.tests

NoStream == [created |-> FALSE, opened |-> FALSE, ended |-> FALSE, chunks |-> <<>>]

Init ==
    /\ args \in ArgLists
    /\ IsFileSystem(fs)
    /\ Len(args) <= 2 =>
          fs = [main |-> Missing(NodeModules), tests |-> Dir(NodeModules, <<>>)]
    /\ noticeFile = StaleNotice
    /\ pc = "main"
    /\ cur = 1
    /\ stack = <<>>
    /\ licenseInfo = <<>>
    /\ yieldedFrom = <<>>
    /\ listed = <<>>
    /\ sortedLicenseInfo = <<>>
    /\ writeStream = NoStream
    /\ log = <<>>
    /\ raised = <<>>
    /\ exitCode = -1

\* An exception reaches main's catch: one error line, and main returns.
Catch(error, path, logs) ==
    /\ log' = log \o logs \o <<Error(error, path)>>
    /\ raised' = Append(raised, error)
    /\ pc' = "returned"

\* Variant: the write stream is created before the scan instead of after it.
MainCreatingStreamFirst ==
    /\ pc = "main"
    /\ IF ~(Len(args) > 2)
       THEN Catch("Usage", <<>>, <<>>) /\ UNCHANGED writeStream
       ELSE /\ log' = Append(log, Info("task path", taskPath))
            /\ writeStream' = [NoStream EXCEPT !.created = TRUE]
            /\ pc' = "scan"
            /\ UNCHANGED raised
    /\ UNCHANGED <<fs, noticeFile, args, cur, stack, licenseInfo, yieldedFrom, listed,
                   sortedLicenseInfo, exitCode>>

\* Lines 167 to 177: the usage check, the task path, the two lazy scans.
Main ==
    /\ pc = "main"
    /\ IF ~(Len(args) > 2)
       THEN Catch("Usage", <<>>, <<>>)
       ELSE /\ log' = Append(log, Info("task path", taskPath))
            /\ pc' = "scan"
            /\ UNCHANGED raised
    /\ UNCHANGED <<fs, noticeFile, args, cur, stack, licenseInfo, yieldedFrom, listed,
                   sortedLicenseInfo, writeStream, exitCode>>

Frame(dir, entries) == [dir |-> dir, entries |-> entries, i |-> 1]

\* Line 73 for a root: concat starts its next iterable.
ListRoot ==
    /\ pc = "scan"
    /\ stack = <<>>
    /\ cur \in {1, 2}
    /\ IF readdirError(rootNode(cur)) # ""
       THEN /\ Catch(readdirError(rootNode(cur)), rootPath(cur), <<>>)
            /\ UNCHANGED <<stack, listed>>
       ELSE /\ stack' = <<Frame(rootPath(cur), rootNode(cur).children)>>
            /\ listed' = Append(listed, rootPath(cur))
            /\ UNCHANGED <<log, raised, pc>>
    /\ UNCHANGED <<fs, noticeFile, args, cur, licenseInfo, yieldedFrom,
                   sortedLicenseInfo, writeStream, exitCode>>

\* Lines 74 to 109: one turn of the loop of the innermost generator.
VisitChild ==
    /\ pc = "scan"
    /\ stack # <<>>
    /\ LET top == stack[Len(stack)]
       IN  /\ top.i <= Len(top.entries)
           /\ LET child == top.entries[top.i]
                  absolutePath == pathJoin(top.dir, child.name)
                  collecting == <<Info("Collecting license information from", absolutePath)>>
                  name == packageName(absolutePath)
                  advanced == [stack EXCEPT ![Len(stack)].i = top.i + 1]
              IN  IF startsWith(basename(absolutePath), At)
                  THEN IF readdirError(child) # ""
                       THEN /\ Catch(readdirError(child), absolutePath, collecting)
                            /\ UNCHANGED <<stack, listed, licenseInfo, yieldedFrom>>
                       ELSE /\ stack' = Append(advanced, Frame(absolutePath, child.children))
                            /\ listed' = Append(listed, absolutePath)
                            /\ log' = log \o collecting
                            /\ UNCHANGED <<raised, pc, licenseInfo, yieldedFrom>>
                  ELSE IF name = DotBin
                  THEN /\ stack' = advanced
                       /\ log' = log \o collecting
                       /\ UNCHANGED <<raised, pc, listed, licenseInfo, yieldedFrom>>
                  ELSE LET v == visitPackage(absolutePath, child, name)
                       IN  IF v.threw
                           THEN /\ Catch(v.error, v.path, collecting \o v.logs)
                                /\ UNCHANGED <<stack, listed, licenseInfo, yieldedFrom>>
                           ELSE /\ stack' = advanced
                                /\ licenseInfo' = Append(licenseInfo, v.record)
                                /\ yieldedFrom' = Append(yieldedFrom, absolutePath)
                                /\ log' = log \o collecting \o v.logs
                                /\ UNCHANGED <<raised, pc, listed>>
    /\ UNCHANGED <<fs, noticeFile, args, cur, sortedLicenseInfo, writeStream, exitCode>>

\* The innermost generator is done: yield* resumes its caller, and concat
\* moves on after a root.
Return ==
    /\ pc = "scan"
    /\ stack # <<>>
    /\ stack[Len(stack)].i > Len(stack[Len(stack)].entries)
    /\ stack' = SubSeq(stack, 1, Len(stack) - 1)
    /\ cur' = IF Len(stack) = 1 THEN cur + 1 ELSE cur
    /\ pc' = IF Len(stack) = 1 /\ cur = 2 THEN "sort" ELSE "scan"
    /\ UNCHANGED <<fs, noticeFile, args, licenseInfo, yieldedFrom, listed,
                   sortedLicenseInfo, writeStream, log, raised, exitCode>>

\* Line 189: the array is complete and sorted.
Sort ==
    /\ pc = "sort"
    /\ sortedLicenseInfo' = sortRecords(licenseInfo)
    /\ pc' = "open"
    /\ UNCHANGED <<fs, noticeFile, args, cur, stack, licenseInfo, yieldedFrom, listed,
                   writeStream, log, raised, exitCode>>

\* Line 191: fs.createWriteStream returns the stream; the file is opened
\* later, from the event loop.
CreateWriteStream ==
    /\ pc = "open"
    /\ writeStream' = [NoStream EXCEPT !.created = TRUE]
    /\ pc' = "write"
    /\ UNCHANGED <<fs, noticeFile, args, cur, stack, licenseInfo, yieldedFrom, listed,
                   sortedLicenseInfo, log, raised, exitCode>>

\* Line 192: writeLines drains the generator into the stream.
WriteLines ==
    /\ pc = "write"
    /\ writeStream' =
          [writeStream EXCEPT
             !.chunks = writeLines(@, thirdPartyNotice(args[3], sortedLicenseInfo))]
    /\ pc' = "end"
    /\ UNCHANGED <<fs, noticeFile, args, cur, stack, licenseInfo, yieldedFrom, listed,
                   sortedLicenseInfo, log, raised, exitCode>>

\* Line 193: writeStream.end(), and main returns.
End ==
    /\ pc = "end"
    /\ writeStream' = [writeStream EXCEPT !.ended = TRUE]
    /\ pc' = "returned"
    /\ UNCHANGED <<fs, noticeFile, args, cur, stack, licenseInfo, yieldedFrom, listed,
                   sortedLicenseInfo, log, raised, exitCode>>

\* After main has returned the stream opens its file with flag 'w'.  A
\* failure is emitted as the stream's 'error' event, which has no listener:
\* the exception is uncaught and the process ends with status 1.
OpenFile ==
    /\ pc = "returned"
    /\ writeStream.created
    /\ ~writeStream.opened
    /\ \E ok \in BOOLEAN :
          IF ok
          THEN /\ noticeFile' = [exists |-> TRUE, data |-> <<>>]
               /\ writeStream' = [writeStream EXCEPT !.opened = TRUE]
               /\ UNCHANGED <<pc, raised, exitCode>>
          ELSE /\ raised' = Append(raised, "EACCES")
               /\ pc' = "exited"
               /\ exitCode' = 1
               /\ UNCHANGED <<noticeFile, writeStream>>
    /\ UNCHANGED <<fs, args, cur, stack, licenseInfo, yieldedFrom, listed,
                   sortedLicenseInfo, log>>

\* The stream writes what was buffered and closes; a write error is emitted
\* the same way.
Flush ==
    /\ pc = "returned"
    /\ writeStream.opened
    /\ \E ok \in BOOLEAN :
          IF ok
          THEN /\ noticeFile' = [exists |-> TRUE, data |-> writeStream.chunks]
               /\ exitCode' = 0
               /\ UNCHANGED raised
          ELSE /\ raised' = Append(raised, "ENOSPC")
               /\ exitCode' = 1
               /\ UNCHANGED noticeFile
    /\ pc' = "exited"
    /\ UNCHANGED <<fs, args, cur, stack, licenseInfo, yieldedFrom, listed,
                   sortedLicenseInfo, writeStream, log>>

\* Nothing is pending after main returned: the process exits with status 0.
Exit ==
    /\ pc = "returned"
    /\ ~writeStream.created
    /\ pc' = "exited"
    /\ exitCode' = 0
    /\ UNCHANGED <<fs, noticeFile, args, cur, stack, licenseInfo, yieldedFrom, listed,
                   sortedLicenseInfo, writeStream, log, raised>>

Next ==
    \/ Main
    \/ ListRoot
    \/ VisitChild
    \/ Return
    \/ Sort
    \/ CreateWriteStream
    \/ WriteLines
    \/ End
    \/ OpenFile
    \/ Flush
    \/ Exit

Spec == Init /\ [][Next]_vars

(***************************************************************************)
(* What the properties below speak about.                                  *)
(***************************************************************************)
UnderMain(p) == Len(p) >= 3 /\ SubSeq(p, 1, 3) = nodeModuleDir
UnderTests(p) == Len(p) >= 4 /\ SubSeq(p, 1, 4) = testsNodeModuleDir
RootOf(p) == IF UnderMain(p) THEN 1 ELSE 2

\* How many directories below its scan root a path lies: 0 for the root.
DepthOf(p) == IF UnderMain(p) THEN Len(p) - 3 ELSE Len(p) - 4

RECURSIVE Descend(_, _)
Descend(node, names) ==
    IF names = <<>> THEN node ELSE Descend(Lookup(node, Head(names)), Tail(names))

\* The directory entry on disk at a path below one of the roots.
NodeAt(p) ==
    IF UnderMain(p)
    THEN Descend(fs.main, SubSeq(p, 4, Len(p)))
    ELSE Descend(fs.tests, SubSeq(p, 5, Len(p)))

ManifestAt(p) == Lookup(NodeAt(p), PackageJson).json

ErrorLines == Cardinality({ i \in DOMAIN log : log[i].level = "ERROR" })
Logged(entry) == \E i \in DOMAIN log : log[i] = entry

\* The paths whose package.json the run has read or tried to read.
ManifestReads ==
    { log[i].path : i \in { j \in DOMAIN log : log[j].text = "Reading the package.json for" } }

\* The paths whose license the run has looked for.
LicenseLookups ==
    { log[i].path : i \in { j \in DOMAIN log : log[j].text = "Finding the license for" } }

MainDone == pc \in {"returned", "exited"}
SortDone == pc \in {"open", "write", "end"} \/ writeStream.created

\* The lines main has written: every chunk before an os.EOL.
LinesWritten == [k \in 1..(Len(writeStream.chunks) \div 2) |-> writeStream.chunks[2 * k - 1]]
Composed == pc \in {"end", "returned", "exited"} /\ writeStream.created

IsBlank(s) == \A i \in 1..Len(s) : s[i] \in WhiteSpace

(***************************************************************************)
(* C1.  A scanned package whose manifest has no `repository` aborts the    *)
(* run: main has returned, exactly one error line is logged, no write      *)
(* stream was created, nothing was written, ThirdPartyNotice.txt is as it  *)
(* was, and the package itself yielded no record.                          *)
(***************************************************************************)
C1_MissingRepositoryAborts ==
    \A p \in ManifestReads :
        (ManifestAt(p).valid /\ ManifestAt(p).repository = "absent") =>
            /\ MainDone
            /\ ErrorLines = 1
            /\ log[Len(log)].level = "ERROR"
            /\ ~writeStream.created
            /\ writeStream.chunks = <<>>
            /\ noticeFile = StaleNotice
            /\ \A i \in DOMAIN yieldedFrom : yieldedFrom[i] # p

\* The run has ended on such a manifest under the test root after other
\* packages had yielded records.
C1_Witness ==
    /\ pc = "exited"
    /\ licenseInfo # <<>>
    /\ \E p \in ManifestReads :
          UnderTests(p) /\ ManifestAt(p).valid /\ ManifestAt(p).repository = "absent"

(***************************************************************************)
(* C2.  Every failure raised in the run is caught once by main: when the   *)
(* process has exited after a failure, exactly one failure was raised,     *)
(* exactly one error line was logged and the exit status is 0.             *)
(***************************************************************************)
C2_EveryFailureCaughtOnce ==
    (pc = "exited" /\ raised # <<>>) =>
        /\ Len(raised) = 1
        /\ ErrorLines = 1
        /\ exitCode = 0

(***************************************************************************)
(* C3.  A record's name is the directory's base name, behind the parent    *)
(* directory's name and a slash when that name starts with @; it is        *)
(* decided by where the directory is, whatever the manifest calls itself.  *)
(***************************************************************************)
C3_NameFromDirectories ==
    \A i \in DOMAIN licenseInfo :
        LET p == yieldedFrom[i]
            dir == p[Len(p)]
            parent == p[Len(p) - 1]
        IN  IF parent # <<>> /\ parent[1] = "@"
            THEN licenseInfo[i].name = parent \o <<"/">> \o dir
            ELSE licenseInfo[i].name = dir

\* A record from below a scope, one from the root itself, and a manifest
\* whose own name differs from the record's.
C3_Witness ==
    /\ \E i \in DOMAIN licenseInfo :
          LET p == yieldedFrom[i] IN p[Len(p) - 1][1] = "@"
    /\ \E i \in DOMAIN licenseInfo :
          LET p == yieldedFrom[i]
          IN  p[Len(p) - 1] = NodeModules /\ ManifestAt(p).name # licenseInfo[i].name

(***************************************************************************)
(* C4.  The sorted array is the scanned records (root 1's before root      *)
(* 2's) rearranged: nothing is lost, added or merged; names ascend by      *)
(* code unit; records of equal name keep the order they were scanned in,   *)
(* so the primary root's record comes first.  b, A, a2 come out as A, a2,  *)
(* b, and a name yielded once under each root is found twice, adjacent.    *)
(***************************************************************************)
NamesOf(records) == [i \in DOMAIN records |-> records[i].name]

\* Bijections of 1..n.
Rearrangements(n) == { f \in [1..n -> 1..n] : \A i, j \in 1..n : f[i] = f[j] => i = j }

C4_SortedStableOrdinal ==
    SortDone =>
        /\ \A i, j \in DOMAIN yieldedFrom :
              i < j => RootOf(yieldedFrom[i]) <= RootOf(yieldedFrom[j])
        /\ Len(sortedLicenseInfo) = Len(licenseInfo)
        /\ \E f \in Rearrangements(Len(licenseInfo)) :
              /\ \A k \in DOMAIN sortedLicenseInfo :
                    sortedLicenseInfo[k] = licenseInfo[f[k]]
              /\ \A j, k \in DOMAIN sortedLicenseInfo :
                    j < k =>
                       /\ ~StrLess(sortedLicenseInfo[k].name, sortedLicenseInfo[j].name)
                       /\ sortedLicenseInfo[j].name = sortedLicenseInfo[k].name
                             => f[j] < f[k]
        /\ NamesOf(licenseInfo) = << <<"b">>, <<"A">>, <<"a", "2">> >>
              => NamesOf(sortedLicenseInfo) = << <<"A">>, <<"a", "2">>, <<"b">> >>
        /\ \A i, j \in DOMAIN licenseInfo :
              ( /\ RootOf(yieldedFrom[i]) = 1
                /\ RootOf(yieldedFrom[j]) = 2
                /\ licenseInfo[i].name = licenseInfo[j].name
                /\ \A h \in DOMAIN licenseInfo :
                      licenseInfo[h].name = licenseInfo[i].name => h \in {i, j} )
              => \E k \in 1..(Len(sortedLicenseInfo) - 1) :
                    /\ sortedLicenseInfo[k] = licenseInfo[i]
                    /\ sortedLicenseInfo[k + 1] = licenseInfo[j]

\* b under both roots with different contents, behind a name that sorts
\* first only by code unit.
C4_Witness ==
    /\ SortDone
    /\ Len(licenseInfo) = 3
    /\ licenseInfo[1].name = <<"b">>
    /\ RootOf(yieldedFrom[1]) = 1
    /\ licenseInfo[2].name = <<"A">>
    /\ licenseInfo[3].name = <<"b">>
    /\ RootOf(yieldedFrom[3]) = 2
    /\ licenseInfo[1] # licenseInfo[3]
    /\ sortedLicenseInfo = <<licenseInfo[2], licenseInfo[1], licenseInfo[3]>>

(***************************************************************************)
(* C5.  The index of the composed notice has one line per record: the      *)
(* k-th is k, a full stop, a tab and the k-th record's name, followed by   *)
(* " (url)" exactly when the url is truthy; the line after the last one    *)
(* is blank.                                                               *)
(***************************************************************************)
C5_IndexNumbering ==
    Composed =>
        LET n == Len(sortedLicenseInfo) IN
        /\ Len(LinesWritten) >= 6 + n + 1
        /\ \A k \in 1..n :
              LET item == sortedLicenseInfo[k]
                  numbered == <<Digits[k + 1], ".", "\t">> \o item.name
              IN  IF item.url.defined /\ item.url.value # <<>>
                  THEN LinesWritten[6 + k] =
                          numbered \o <<" ", "(">> \o item.url.value \o <<")">>
                  ELSE LinesWritten[6 + k] = numbered
        /\ LinesWritten[6 + n + 1] = <<>>

\* A record with the empty url, one with a url behind it, one without a url
\* last.
C5_Witness ==
    /\ Composed
    /\ Len(sortedLicenseInfo) = 3
    /\ sortedLicenseInfo[1].url = Defined(<<>>)
    /\ Truthy(sortedLicenseInfo[2].url)
    /\ sortedLicenseInfo[3].url = Undefined

(***************************************************************************)
(* C6.  A directory called .bin is passed over wherever the scanner finds  *)
(* it: its manifest is not read, its license is not looked for and it      *)
(* yields no record.                                                       *)
(***************************************************************************)
C6_DotBinNeverScanned ==
    /\ \A i \in DOMAIN yieldedFrom : basename(yieldedFrom[i]) # DotBin
    /\ \A p \in ManifestReads \cup LicenseLookups : basename(p) # DotBin

(***************************************************************************)
(* C7.  For a package whose license was looked for, the candidates are     *)
(* the entries called LICENSE, LICENSE.md or LICENSE.txt in any case.      *)
(* With none, the missing-license warning is logged and a record yielded   *)
(* for it holds NO LICENSE FOUND; with some, the first in listing order    *)
(* is the one path reported and its whole text is the record's             *)
(* licenseText.  The multiplicity warning is logged exactly when there     *)
(* are several candidates, and a package that only lacks a license, or     *)
(* has several, still yields its record.                                   *)
(***************************************************************************)
SameIgnoringCase(x, literal) ==
    /\ Len(x) = Len(literal)
    /\ \A i \in 1..Len(x) :
          \/ x[i] = literal[i]
          \/ /\ CodeOf(literal[i]) \in 65..90
             /\ CodeOf(x[i]) = CodeOf(literal[i]) + 32
          \/ /\ CodeOf(literal[i]) \in 97..122
             /\ CodeOf(x[i]) = CodeOf(literal[i]) - 32

LicenseLiterals ==
    { <<"L", "I", "C", "E", "N", "S", "E">>,
      <<"L", "I", "C", "E", "N", "S", "E", ".", "m", "d">>,
      <<"L", "I", "C", "E", "N", "S", "E", ".", "t", "x", "t">> }

\* The positions of the license candidates in the listing of the directory at p.
CandidatePositions(p) ==
    { j \in DOMAIN NodeAt(p).children :
        \E literal \in LicenseLiterals : SameIgnoringCase(NodeAt(p).children[j].name, literal) }

FirstOf(positions) == CHOOSE j \in positions : \A h \in positions : j <= h

FoundLicensePaths(p) ==
    { log[i].path : i \in { j \in DOMAIN log :
                              /\ log[j].text = "Found license"
                              /\ dirname(log[j].path) = p } }

C7_LicenseResolution ==
    \A p \in { q \in LicenseLookups : readdirError(NodeAt(q)) = "" } :
        LET positions == CandidatePositions(p) IN
        /\ Logged(Warning("Found multiple license files for", p)) <=> Cardinality(positions) > 1
        /\ Logged(Warning("Could not find a license for", p)) <=> positions = {}
        /\ positions = {} => FoundLicensePaths(p) = {}
        /\ positions # {} =>
              FoundLicensePaths(p) = { pathJoin(p, NodeAt(p).children[FirstOf(positions)].name) }
        /\ ( /\ ManifestAt(p).repository # "absent"
             /\ positions # {} =>
                   readFileError(NodeAt(p).children[FirstOf(positions)]) = "" ) =>
              \E i \in DOMAIN licenseInfo :
                 /\ yieldedFrom[i] = p
                 /\ licenseInfo[i].licenseText =
                       IF positions = {}
                       THEN <<"N", "O", " ", "L", "I", "C", "E", "N", "S", "E", " ",
                              "F", "O", "U", "N", "D">>
                       ELSE NodeAt(p).children[FirstOf(positions)].text

\* The scan went on past a package without a license and past one with two
\* candidates that differ in case, and the first candidate was not the
\* first entry of its directory.
C7_Witness ==
    /\ Len(licenseInfo) = 3
    /\ \E p \in LicenseLookups : CandidatePositions(p) = {}
    /\ \E p \in LicenseLookups : Cardinality(CandidatePositions(p)) = 2
    /\ \E p \in LicenseLookups :
          CandidatePositions(p) # {} /\ FirstOf(CandidatePositions(p)) > 1

(***************************************************************************)
(* C8.  For N records main writes 8 + 7N lines, each followed by os.EOL:   *)
(* the six lines of the preamble, N index lines, two blank lines, then     *)
(* for each record in the same order the begin marker, 41 equals signs,    *)
(* the license text without the white space around it, the 41 equals       *)
(* signs again, the end marker and a blank line.                           *)
(***************************************************************************)
\* t is s without leading and trailing white space.
IsTrimOf(t, s) ==
    /\ t = <<>> \/ (t[1] \notin WhiteSpace /\ t[Len(t)] \notin WhiteSpace)
    /\ \E a \in 0..Len(s) :
          /\ a + Len(t) <= Len(s)
          /\ SubSeq(s, a + 1, a + Len(t)) = t
          /\ IsBlank(SubSeq(s, 1, a))
          /\ IsBlank(SubSeq(s, a + Len(t) + 1, Len(s)))

IsSeparator(line) == Len(line) = 41 /\ \A i \in 1..Len(line) : line[i] = "="

C8_NoticeLayout ==
    Composed =>
        LET n == Len(sortedLicenseInfo)
            line == LinesWritten
        IN  /\ Len(writeStream.chunks) = 2 * (8 + 7 * n)
            /\ \A c \in 1..(8 + 7 * n) : writeStream.chunks[2 * c] = <<"\n">>
            /\ line[1] = <<>> /\ line[4] = <<>> /\ line[6] = <<>>
            /\ line[2] = TitleLine
            /\ line[3] = DoNotTranslateLine
            /\ line[5] = BoilerplateHead \o args[3] \o BoilerplateTail
            /\ \A k \in 1..n :
                  startsWith(line[6 + k],
                             <<Digits[k + 1], ".", "\t">> \o sortedLicenseInfo[k].name)
            /\ line[6 + n + 1] = <<>> /\ line[6 + n + 2] = <<>>
            /\ \A k \in 1..n :
                  LET at == 8 + n + 6 * (k - 1)
                      item == sortedLicenseInfo[k]
                  IN  /\ line[at + 1] = <<"%", "%", " ">> \o item.name \o BeginTail
                      /\ IsSeparator(line[at + 2])
                      /\ IsTrimOf(line[at + 3], item.licenseText)
                      /\ IsSeparator(line[at + 4])
                      /\ line[at + 5] = <<"E", "N", "D", " ", "O", "F", " ">> \o item.name \o EndTail
                      /\ line[at + 6] = <<>>

\* Three records were composed, one of them with white space around its
\* license text.
C8_Witness ==
    /\ pc = "exited"
    /\ exitCode = 0
    /\ Len(sortedLicenseInfo) = 3
    /\ \E k \in 1..3 :
          LET text == sortedLicenseInfo[k].licenseText
          IN  text[1] \in WhiteSpace /\ text[Len(text)] \in WhiteSpace
    /\ noticeFile.data = writeStream.chunks

(***************************************************************************)
(* C9.  The write stream for ThirdPartyNotice.txt exists, and the file on  *)
(* disk differs from what it was, only after both roots were scanned to    *)
(* the end and the records sorted; the test root is listed only after the  *)
(* scan of the primary root has ended, and nothing below the primary root  *)
(* is listed or yielded after that.  A run that failed before the stream   *)
(* was created leaves the file as it was and has written nothing.          *)
(***************************************************************************)
C9_OutputOnlyAfterBothScans ==
    /\ (writeStream.created \/ noticeFile # StaleNotice) =>
          /\ cur = 3
          /\ stack = <<>>
          /\ \E i \in DOMAIN listed : listed[i] = nodeModuleDir
          /\ \E i \in DOMAIN listed : listed[i] = testsNodeModuleDir
          /\ Len(sortedLicenseInfo) = Len(licenseInfo)
          /\ raised = <<>> \/ pc = "exited"
    /\ \A j \in DOMAIN listed :
          listed[j] = testsNodeModuleDir =>
             /\ cur >= 2
             /\ \A i \in DOMAIN listed : UnderMain(listed[i]) => i < j
    /\ \A i, j \in DOMAIN yieldedFrom :
          (UnderTests(yieldedFrom[i]) /\ UnderMain(yieldedFrom[j])) => j < i
    /\ (raised # <<>> /\ ~writeStream.created) =>
          /\ noticeFile = StaleNotice
          /\ writeStream.chunks = <<>>

\* The primary root yielded records, the test root is missing, and the run
\* is over.
C9_Witness ==
    /\ pc = "exited"
    /\ Len(licenseInfo) >= 2
    /\ fs.tests.type = "none"
    /\ raised = <<"ENOENT">>
    /\ noticeFile = StaleNotice

(***************************************************************************)
(* C10.  The scanner lists only a scan root and the @-directories right    *)
(* below it, and yields records only for directories right below the root  *)
(* or right below such an @-directory; the records of a root come in       *)
(* listing order, those of a scope at the scope's place in it.             *)
(***************************************************************************)
\* Where the listing of directory dir has the entry called name.
ListingPosition(dir, name) ==
    CHOOSE k \in DOMAIN NodeAt(dir).children : NodeAt(dir).children[k].name = name

\* Where two different paths first differ.
ForkOf(p, q) ==
    CHOOSE d \in 1..Len(p) :
        /\ d > Len(q) \/ p[d] # q[d]
        /\ \A e \in 1..(d - 1) : p[e] = q[e]

\* p comes before q when the tree is walked in listing order.
WalkedBefore(p, q) ==
    LET d == ForkOf(p, q)
        dir == SubSeq(p, 1, d - 1)
    IN  ListingPosition(dir, p[d]) < ListingPosition(dir, q[d])

C10_YieldedInListingOrder ==
    \A i, j \in DOMAIN yieldedFrom :
        (i < j /\ RootOf(yieldedFrom[i]) = RootOf(yieldedFrom[j]))
            => WalkedBefore(yieldedFrom[i], yieldedFrom[j])

C10_OneLevelOfScopes ==
    /\ \A i \in DOMAIN listed : DepthOf(listed[i]) <= 1
    /\ \A i \in DOMAIN yieldedFrom :
          LET p == yieldedFrom[i]
          IN  \/ DepthOf(p) = 1
              \/ DepthOf(p) = 2 /\ startsWith(p[Len(p) - 1], <<"@">>)
    /\ C10_YieldedInListingOrder

====
